---- MODULE Spec2Model ----
(***************************************************************************)
(* Model of class Migrate (src/src/migrate.ts): the four public            *)
(* operations retrieveModels, retrieveMysqlData, generateMongoSchemas and  *)
(* populateMongo acting on the instance fields (models, modelschemas), on  *)
(* the two directories (data-files/, mongo-models/) and on the source      *)
(* MySQL database.  Names are TLA+ strings, handled with the same string   *)
(* operations the code uses (split, join, slice, toUpperCase).             *)
(***************************************************************************)
EXTENDS Integers, Sequences, FiniteSets, TLC

(* ---------------------------- bounds ----------------------------------- *)

\* number of changes the source database undergoes during one exploration
MaxChanges == 1
\* rows a table can hold
MaxRows == 2
\* length of the names the name-normalisation specification enumerates
MaxNameLen == 3
\* columns the type-mapping specification maps one after the other
MaxColumns == 2

(* ------------------------- string helpers ------------------------------ *)

\* s[i] as a one-character string (1-based)
CharAt(s, i) == SubSeq(s, i, i)

\* String.prototype.indexOf for a one-character needle: position of the
\* first occurrence, 1-based; 0 where JavaScript answers -1
RECURSIVE IndexFrom(_, _, _)
IndexFrom(s, c, i) ==
    IF i > Len(s) THEN 0
    ELSE IF CharAt(s, i) = c THEN i
    ELSE IndexFrom(s, c, i + 1)

indexOf(s, c) == IndexFrom(s, c, 1)

\* s.split(c)[0]: everything before the first c, the whole of s without one
splitFirst(s, c) ==
    IF indexOf(s, c) = 0 THEN s ELSE SubSeq(s, 1, indexOf(s, c) - 1)

\* s.split(c).join(''): s with every occurrence of c removed
RECURSIVE splitJoin(_, _)
splitJoin(s, c) ==
    IF Len(s) = 0 THEN ""
    ELSE IF CharAt(s, 1) = c THEN splitJoin(SubSeq(s, 2, Len(s)), c)
    ELSE CharAt(s, 1) \o splitJoin(SubSeq(s, 2, Len(s)), c)

Lower == "abcdefghijklmnopqrstuvwxyz"
Upper == "ABCDEFGHIJKLMNOPQRSTUVWXYZ"

\* String.prototype.toUpperCase on a string of at most one character
toUpperCase(ch) ==
    IF Len(ch) = 1 /\ indexOf(Lower, ch) # 0
    THEN CharAt(Upper, indexOf(Lower, ch))
    ELSE ch

\* s.slice(0, 1) and s.slice(1)
sliceHead(s) == IF Len(s) = 0 THEN "" ELSE SubSeq(s, 1, 1)
sliceTail(s) == IF Len(s) = 0 THEN "" ELSE SubSeq(s, 2, Len(s))

(* ----------------------- name normalisation ---------------------------- *)

\* the variant that also capitalises the character after each underscore
RECURSIVE camelJoin(_)
camelJoin(s) ==
    IF Len(s) = 0 THEN ""
    ELSE IF CharAt(s, 1) = "_"
         THEN toUpperCase(sliceHead(sliceTail(s))) \o
              camelJoin(sliceTail(sliceTail(s)))
    ELSE CharAt(s, 1) \o camelJoin(sliceTail(s))

normalizeCamel(name) ==
    toUpperCase(sliceHead(camelJoin(name))) \o sliceTail(camelJoin(name))

\* lines 94-97: drop the underscores, capitalise the first character
normalize(name) ==
    LET joined == IF indexOf(name, "_") # 0 THEN splitJoin(name, "_") ELSE name
    IN  toUpperCase(sliceHead(joined)) \o sliceTail(joined)

\* line 92: the table a staged file belongs to
tableOf(schemafile) == splitFirst(schemafile, ".")

\* lines 92-97: staged file name -> model name
modelname(schemafile) == normalize(tableOf(schemafile))

\* line 60: the artifact of a table;  line 105: the definition of a model
artifact(model) == model \o ".json"
definitionFile(name) == name \o ".ts"

(* ------------------------ source database ------------------------------ *)

\* the base tables the source database can hold, in the order the server
\* lists them (by name)
TableOrder == <<"order_items", "orderitems", "users">>

Tables == {TableOrder[i] : i \in DOMAIN TableOrder}

\* the members of S in listing order
Listing(S) == SelectSeq(TableOrder, LAMBDA t : t \in S)

NoDefault == [null |-> TRUE, value |-> ""]
Literal(v) == [null |-> FALSE, value |-> v]

\* `describe <table>`: one row per column (Field, Type, Null, Default)
describe(t) ==
    CASE t = "users" ->
           << [Field |-> "id", Type |-> "int(11)", Null |-> "NO",
               Default |-> NoDefault],
              [Field |-> "email", Type |-> "varchar(255)", Null |-> "YES",
               Default |-> NoDefault] >>
      [] t = "order_items" ->
           << [Field |-> "qty", Type |-> "int(11)", Null |-> "NO",
               Default |-> Literal("1")] >>
      [] t = "orderitems" ->
           << [Field |-> "created", Type |-> "timestamp", Null |-> "NO",
               Default |-> Literal("CURRENT_TIMESTAMP")],
              [Field |-> "area", Type |-> "geometry", Null |-> "YES",
               Default |-> NoDefault] >>
      [] OTHER -> << >>

\* `select * from <table>` on a table holding n rows: the rows 1..n
select(n) == [i \in 1..n |-> i]

\* JSON.stringify of a row array
RECURSIVE joinRows(_)
joinRows(rows) ==
    IF Len(rows) = 0 THEN ""
    ELSE IF Len(rows) = 1 THEN ToString(rows[1])
    ELSE ToString(rows[1]) \o "," \o joinRows(Tail(rows))

JSONstringify(rows) == "[" \o joinRows(rows) \o "]"

\* the decimal number a string of digits denotes
RECURSIVE toNumber(_)
toNumber(s) ==
    IF Len(s) = 0 THEN 0
    ELSE 10 * toNumber(SubSeq(s, 1, Len(s) - 1))
         + (indexOf("0123456789", CharAt(s, Len(s))) - 1)

\* the elements of the comma-separated text between the brackets
RECURSIVE parseRows(_)
parseRows(inner) ==
    IF Len(inner) = 0 THEN << >>
    ELSE LET tok == splitFirst(inner, ",")
         IN  <<toNumber(tok)>> \o parseRows(SubSeq(inner, Len(tok) + 2, Len(inner)))

\* line 135: JSON.parse of an artifact, the row array
JSONparse(text) == parseRows(SubSeq(text, 2, Len(text) - 1))

\* utils/datatypes: MySQL base type name -> mongoose type
datatypes ==
    [ty \in {"int", "varchar", "timestamp"} |->
        CASE ty = "int" -> "Number"
          [] ty = "varchar" -> "String"
          [] ty = "timestamp" -> "Date"]

(* ------------------------------ errors --------------------------------- *)

NoError == [kind |-> "none", table |-> ""]
\* line 45
ModelsUndefined == [kind |-> "Call retrieveModels to get MySQL models!", table |-> ""]
\* line 79
EmptyDirectory == [kind |-> "Empty directory!", table |-> ""]
\* fs.readdirSync / fs.readFileSync on a missing path
ENOENT(path) == [kind |-> "ENOENT", table |-> path]
\* database.query rejected by the server: the message names the table
QueryError(t) == [kind |-> "QueryError", table |-> t]
\* database.query rejected because the connection is gone: no table named
ConnectivityError == [kind |-> "ConnectivityError", table |-> ""]

(* ------------------------------- state --------------------------------- *)

VARIABLES
    models,        \* this.models: [defined, list]
    modelschemas,  \* this.modelschemas: sequence of <<data file, model name>>, insertion order
    datafiles,     \* directory data-files/: [exists, files: name -> content]
    modelfiles,    \* directory mongo-models/: [exists, files: name -> content]
    dbtables,      \* source database: the set of base tables
    dbrows,        \* source database: number of rows per table
    changes,       \* changes of the source database so far
    lastOp,        \* the last call made on the instance (or "source")
    lastError,     \* what that call threw, NoError when it resolved
    repeated,      \* the last call and the call right before it were the same
                   \* operation and both resolved
    io,            \* the queries, file writes and file reads of the last call, in order
    completed,     \* the stages before the load that have resolved at least once on this instance
    nname,         \* name-normalisation specification: the input name
    nresult,       \* name-normalisation specification: normalize(nname) once applied
    collections,   \* target store: number of documents per collection (model name)
    mappedCols,    \* type-mapping specification: the columns mapped so far, each
                   \* with the descriptor generated for it
    race           \* concurrent-staging specification: the two runs

vars == << models, modelschemas, datafiles, modelfiles, dbtables, dbrows,
           changes, lastOp, lastError, repeated, io, completed, nname, nresult,
           collections, mappedCols, race >>

instance == << models, modelschemas >>
dirs == << datafiles, modelfiles >>
source == << dbtables, dbrows, changes >>
names == << nname, nresult >>
others == << mappedCols, race >>

EmptyFiles == [f \in {} |-> ""]
Absent == [exists |-> FALSE, files |-> EmptyFiles]
EmptyDir == [exists |-> TRUE, files |-> EmptyFiles]

\* a directory holding exactly the given file -> content function
Dir(fs) == [exists |-> TRUE, files |-> fs]

\* the file names of a directory (none when it does not exist)
Names(dir) == DOMAIN dir.files

\* fs.readdirSync of data-files/: the staged files in directory order
readdir(dir) == SelectSeq([i \in DOMAIN TableOrder |-> artifact(TableOrder[i])],
                          LAMBDA f : f \in Names(dir))

\* Map keys / lookup on the insertion-ordered modelschemas
Keys(map) == {map[i][1] : i \in DOMAIN map}
Get(map, k) == map[CHOOSE i \in DOMAIN map : map[i][1] = k][2]

\* Map.prototype.set: replace in place, else append
MapSet(map, k, v) ==
    IF k \in Keys(map)
    THEN [i \in DOMAIN map |-> IF map[i][1] = k THEN <<k, v>> ELSE map[i]]
    ELSE Append(map, <<k, v>>)

\* what the directories may hold before the instance is constructed: nothing,
\* an empty directory, or the output of an earlier run of the program
StaleData == {Absent, EmptyDir} \cup
             {Dir([f \in {artifact(t)} |-> JSONstringify(select(0))]) : t \in Tables}

(* ------------------------ schema definitions --------------------------- *)

\* the variant that takes Null = 'YES' for required
fieldDefinitionNullRequired(field) ==
    LET datatype == IF indexOf(field.Type, "(") # 0
                    THEN splitFirst(field.Type, "(") ELSE field.Type
    IN  [Field    |-> field.Field,
         type     |-> IF datatype \in DOMAIN datatypes
                      THEN datatypes[datatype] ELSE "undefined",
         required |-> IF field.Null = "YES" THEN "true" ELSE "false",
         default  |-> IF field.Default.null THEN "null"
                      ELSE IF field.Default.value = "CURRENT_TIMESTAMP"
                           THEN "Date.now" ELSE field.Default.value]

\* the variant that looks the raw type up without stripping its parameters
fieldDefinitionRawLookup(field) ==
    [Field    |-> field.Field,
     type     |-> IF field.Type \in DOMAIN datatypes
                  THEN datatypes[field.Type] ELSE "undefined",
     required |-> IF field.Null = "YES" THEN "false" ELSE "true",
     default  |-> IF field.Default.null THEN "null"
                  ELSE IF field.Default.value = "CURRENT_TIMESTAMP"
                       THEN "Date.now" ELSE field.Default.value]

\* lines 111-117: the text generated for one column; an absent key of
\* datatypes and a null Default are interpolated as "undefined" and "null"
fieldDefinition(field) ==
    LET datatype == IF indexOf(field.Type, "(") # 0
                    THEN splitFirst(field.Type, "(") ELSE field.Type
    IN  [Field    |-> field.Field,
         type     |-> IF datatype \in DOMAIN datatypes
                      THEN datatypes[datatype] ELSE "undefined",
         required |-> IF field.Null = "YES" THEN "false" ELSE "true",
         default  |-> IF field.Default.null THEN "null"
                      ELSE IF field.Default.value = "CURRENT_TIMESTAMP"
                           THEN "Date.now" ELSE field.Default.value]

\* lines 105-121: the content of <modelname>.ts
schemaDefinition(schemafile) ==
    [model  |-> modelname(schemafile),
     fields |-> [i \in DOMAIN describe(tableOf(schemafile)) |->
                    fieldDefinition(describe(tableOf(schemafile))[i])]]

\* every file name data-files/ can hold
Artifacts == {artifact(t) : t \in Tables}

\* tableOf, modelname and schemaDefinition tabulated over the staged files
tablesOf == [f \in Artifacts |-> tableOf(f)]
modelnames == [f \in Artifacts |-> modelname(f)]
definitions == [f \in Artifacts |-> schemaDefinition(f)]

\* the collections of the target store: one per model name
ModelNames == {modelnames[f] : f \in Artifacts}

StaleModels == {Absent, EmptyDir} \cup
    {Dir([f \in {definitionFile(modelname(artifact(t)))} |->
             schemaDefinition(artifact(t))]) : t \in Tables}

(* ---------------------------- database.query --------------------------- *)

\* The position of the first query of a call that is rejected, 0 when all
\* are answered: the connection drops at query failAt (0: it stays up), and
\* the server rejects a query on a table that does not exist (any more).
RECURSIVE failingFrom(_, _, _)
failingFrom(list, failAt, i) ==
    IF i > Len(list) THEN 0
    ELSE IF i = failAt \/ list[i] \notin dbtables THEN i
    ELSE failingFrom(list, failAt, i + 1)

failingQuery(list, failAt) == failingFrom(list, failAt, 1)

\* what the rejected query throws
queryError(list, k, failAt) ==
    IF k = failAt THEN ConnectivityError ELSE QueryError(list[k])

(* --------------------------- retrieveMysqlData ------------------------- *)

\* the variant that unlinks nothing
unlinkNone(dir) == IF dir.exists THEN dir ELSE EmptyDir

\* lines 47-56: unlink every file of data-files/, or create the directory
unlinkAll(dir) == IF dir.exists THEN EmptyDir ELSE EmptyDir

\* lines 58-61 for the first n models: <model>.json := JSON.stringify(rows)
writeFiles(dir, list, n) ==
    LET written == {artifact(list[i]) : i \in 1..n}
        last(f) == CHOOSE i \in 1..n :
                      /\ artifact(list[i]) = f
                      /\ \A j \in 1..n : artifact(list[j]) = f => j <= i
    IN  Dir([f \in Names(dir) \cup written |->
                IF f \in written
                THEN JSONstringify(select(dbrows[list[last(f)]]))
                ELSE dir.files[f]])

\* the variant that unlinks the files it listed after writing the new ones
stagedUnlinkLast(dir, list, n) ==
    LET w == writeFiles(unlinkNone(dir), list, n)
    IN  Dir([f \in Names(w) \ Names(dir) |-> w.files[f]])

\* lines 47-61: data-files/ when n models have been written
staged(dir, list, n) == writeFiles(unlinkAll(dir), list, n)

\* the queries and writes of lines 58-61 in order, k the rejected query
stagedIO(list, k) ==
    LET n == IF k = 0 THEN Len(list) ELSE k - 1
        steps == 2 * n + (IF k = 0 THEN 0 ELSE 1)
    IN  [j \in 1..steps |->
            IF j % 2 = 1 THEN <<"query", list[(j + 1) \div 2]>>
            ELSE <<"write", artifact(list[j \div 2])>>]

(* -------------------------- generateMongoSchemas ----------------------- *)

\* lines 100-121 for the first n staged files: mkdir, then <modelname>.ts
writeDefinitions(dir, schemafiles, n) ==
    LET written == {definitionFile(modelnames[schemafiles[i]]) : i \in 1..n}
        last(f) == CHOOSE i \in 1..n :
                      /\ definitionFile(modelnames[schemafiles[i]]) = f
                      /\ \A j \in 1..n :
                            definitionFile(modelnames[schemafiles[j]]) = f => j <= i
    IN  IF n = 0 THEN dir
        ELSE Dir([f \in Names(dir) \cup written |->
                    IF f \in written
                    THEN definitions[schemafiles[last(f)]]
                    ELSE dir.files[f]])

\* lines 82-89: unlink every previously generated model, if the directory exists
unlinkModels(dir) == IF dir.exists THEN EmptyDir ELSE Absent

\* the variant that leaves the previous definitions in place
generatedModelsKeepOld(dir, schemafiles, n) ==
    IF Len(schemafiles) < 1 THEN dir
    ELSE writeDefinitions(dir, schemafiles, n)

\* the variant that tests for the empty directory after clearing
generatedModelsClearFirst(dir, schemafiles, n) ==
    IF Len(schemafiles) < 1 THEN unlinkModels(dir)
    ELSE writeDefinitions(unlinkModels(dir), schemafiles, n)

\* lines 77-122: mongo-models/ when n staged files have been processed
generatedModels(dir, schemafiles, n) ==
    IF Len(schemafiles) < 1 THEN dir
    ELSE writeDefinitions(unlinkModels(dir), schemafiles, n)

\* the variant that sets the entry before describing the table, so that the
\* file whose query is rejected is mapped too
mappedBeforeDescribe(map, schemafiles, n) ==
    LET RECURSIVE upTo(_)
        upTo(j) == IF j = 0 THEN map
                   ELSE MapSet(upTo(j - 1), schemafiles[j], modelnames[schemafiles[j]])
    IN  upTo(IF n < Len(schemafiles) THEN n + 1 ELSE n)

\* line 99 for the first n staged files
RECURSIVE mapped(_, _, _)
mapped(map, schemafiles, n) ==
    IF n = 0 THEN map
    ELSE MapSet(mapped(map, schemafiles, n - 1),
                schemafiles[n], modelnames[schemafiles[n]])

\* the queries and writes of lines 91-122 in order, k the rejected query
generatedIO(schemafiles, k) ==
    LET n == IF k = 0 THEN Len(schemafiles) ELSE k - 1
        steps == 2 * n + (IF k = 0 THEN 0 ELSE 1)
    IN  IF Len(schemafiles) < 1 THEN << >>
        ELSE [j \in 1..steps |->
                IF j % 2 = 1 THEN <<"describe", tablesOf[schemafiles[(j + 1) \div 2]]>>
                ELSE <<"write", definitionFile(modelnames[schemafiles[j \div 2]])>>]

(* ------------------------------ actions -------------------------------- *)

\* bookkeeping every call shares: which call, what it threw, what it issued
Called(op, error, issued) ==
    /\ lastOp' = op
    /\ lastError' = error
    /\ repeated' = (op = lastOp /\ error = NoError /\ lastError = NoError)
    /\ io' = issued
    /\ completed' = IF error = NoError /\ op # "populateMongo"
                    THEN completed \cup {op} ELSE completed

\* the variant that keeps the list once it is set
discoveredOnce(old, up, tables) ==
    IF up /\ ~old.defined THEN [defined |-> TRUE, list |-> Listing(tables)] ELSE old

\* lines 32-35: this.models after the call, the names of the base tables the
\* query answers with; unchanged when the query is rejected
discovered(old, up, tables) ==
    IF up THEN [defined |-> TRUE, list |-> Listing(tables)] ELSE old

\* lines 31-36; up: whether the connection answers the query
retrieveModels(up) ==
    /\ models' = discovered(models, up, dbtables)
    /\ Called("retrieveModels",
              IF up THEN NoError ELSE ConnectivityError,
              << <<"query", "show full tables">> >>)
    /\ UNCHANGED << modelschemas, dirs, source, names, collections, others >>

\* the variant that tests this.models after cleaning the directory
retrieveMysqlDataCleanFirst(failAt) ==
    /\ IF ~models.defined
       THEN /\ Called("retrieveMysqlData", ModelsUndefined, << >>)
            /\ datafiles' = unlinkAll(datafiles)
       ELSE LET k == failingQuery(models.list, failAt)
                n == IF k = 0 THEN Len(models.list) ELSE k - 1
            IN  /\ failAt <= Len(models.list)
                /\ datafiles' = staged(datafiles, models.list, n)
                /\ Called("retrieveMysqlData",
                          IF k = 0 THEN NoError
                          ELSE queryError(models.list, k, failAt),
                          stagedIO(models.list, k))
    /\ UNCHANGED << instance, modelfiles, source, names, collections, others >>

\* lines 43-69; failAt: the query at which the connection drops (0: none)
retrieveMysqlData(failAt) ==
    /\ IF ~models.defined
       THEN /\ Called("retrieveMysqlData", ModelsUndefined, << >>)
            /\ UNCHANGED datafiles
       ELSE LET k == failingQuery(models.list, failAt)
                n == IF k = 0 THEN Len(models.list) ELSE k - 1
            IN  /\ failAt <= Len(models.list)
                /\ datafiles' = staged(datafiles, models.list, n)
                /\ Called("retrieveMysqlData",
                          IF k = 0 THEN NoError
                          ELSE queryError(models.list, k, failAt),
                          stagedIO(models.list, k))
    /\ UNCHANGED << instance, modelfiles, source, names, collections, others >>

\* lines 76-124; failAt: the query at which the connection drops (0: none)
generateMongoSchemas(failAt) ==
    /\ IF ~datafiles.exists
       THEN /\ Called("generateMongoSchemas", ENOENT("data-files"), << >>)
            /\ UNCHANGED << modelfiles, modelschemas >>
       ELSE LET schemafiles == readdir(datafiles)
                tables == [i \in DOMAIN schemafiles |-> tablesOf[schemafiles[i]]]
                k == failingQuery(tables, failAt)
                n == IF k = 0 THEN Len(schemafiles) ELSE k - 1
            IN  /\ failAt <= Len(schemafiles)
                /\ modelfiles' = generatedModels(modelfiles, schemafiles, n)
                /\ modelschemas' = mapped(modelschemas, schemafiles, n)
                /\ Called("generateMongoSchemas",
                          IF Len(schemafiles) < 1 THEN EmptyDirectory
                          ELSE IF k = 0 THEN NoError
                          ELSE queryError(tables, k, failAt),
                          generatedIO(schemafiles, k))
    /\ UNCHANGED << models, datafiles, source, names, collections, others >>

\* lines 132-139: position of the first mapped data file that cannot be
\* read, 0 when all can
RECURSIVE missingFrom(_, _, _)
missingFrom(map, dir, i) ==
    IF i > Len(map) THEN 0
    ELSE IF map[i][1] \notin Names(dir) THEN i
    ELSE missingFrom(map, dir, i + 1)

\* the variant that refuses an empty mapping
populateErrorEmptyRefused(map, dir) ==
    LET k == missingFrom(map, dir, 1)
    IN  IF map = << >> THEN [kind |-> "Call generateMongoSchemas first!", table |-> ""]
        ELSE IF k = 0 THEN NoError ELSE ENOENT(map[k][1])

\* lines 133-137: what populateMongo throws; nothing on an empty mapping
populateError(map, dir) ==
    LET k == missingFrom(map, dir, 1)
    IN  IF k = 0 THEN NoError ELSE ENOENT(map[k][1])

\* the variant that removes each data file once it is read
populateMongoUnlinking ==
    /\ LET k == missingFrom(modelschemas, datafiles, 1)
           reads == IF k = 0 THEN Len(modelschemas) ELSE k - 1
       IN  /\ Called("populateMongo",
                     populateError(modelschemas, datafiles),
                     [i \in 1..(IF k = 0 THEN reads ELSE k) |->
                         <<"read", modelschemas[i][1]>>])
           /\ datafiles' = [datafiles EXCEPT !.files =
                  [f \in Names(datafiles) \ {modelschemas[i][1] : i \in 1..reads} |->
                      datafiles.files[f]]]
    /\ UNCHANGED collections
    /\ UNCHANGED << instance, modelfiles, source, names, others >>

populateMongo ==
    /\ LET k == missingFrom(modelschemas, datafiles, 1)
           reads == IF k = 0 THEN Len(modelschemas) ELSE k
       IN  Called("populateMongo",
                  populateError(modelschemas, datafiles),
                  [i \in 1..reads |-> <<"read", modelschemas[i][1]>>])
    \* line 136: the rows read are logged, nothing is written to the target store
    /\ UNCHANGED collections
    /\ UNCHANGED << instance, dirs, source, names, others >>

\* the source database changes between calls
SourceChanged ==
    /\ changes < MaxChanges
    /\ changes' = changes + 1
    /\ lastOp' = "source"
    /\ lastError' = NoError
    /\ repeated' = FALSE
    /\ io' = << >>
    /\ UNCHANGED << instance, dirs, names, completed, collections, others >>

CreateTable(t) ==
    /\ t \notin dbtables
    /\ dbtables' = dbtables \cup {t}
    /\ dbrows' = [dbrows EXCEPT ![t] = 0]
    /\ SourceChanged

DropTable(t) ==
    /\ t \in dbtables
    /\ dbtables' = dbtables \ {t}
    /\ dbrows' = [dbrows EXCEPT ![t] = 0]
    /\ SourceChanged

InsertRow(t) ==
    /\ t \in dbtables
    /\ dbrows[t] < MaxRows
    /\ dbrows' = [dbrows EXCEPT ![t] = @ + 1]
    /\ UNCHANGED dbtables
    /\ SourceChanged

(* --------------------------- specification ----------------------------- *)

\* the two runs of the concurrent-staging specification, not started
NoRace == [runs |-> << >>, started |-> << >>, overlap |-> FALSE]

\* the state a new instance starts from, whatever the directories hold
Fresh ==
    /\ models = [defined |-> FALSE, list |-> << >>]
    /\ modelschemas = << >>
    /\ changes = 0
    /\ lastOp = "none"
    /\ lastError = NoError
    /\ repeated = FALSE
    /\ io = << >>
    /\ completed = {}
    /\ collections = [m \in ModelNames |-> 0]

\* a new Migrate (lines 20-24) in front of some source database, with the
\* two directories as an earlier run of the program may have left them
Init ==
    /\ Fresh
    /\ datafiles \in StaleData
    /\ modelfiles \in StaleModels
    /\ dbtables \in SUBSET Tables
    /\ dbrows = [t \in Tables |-> IF t \in dbtables THEN 1 ELSE 0]
    /\ nname = ""
    /\ nresult = ""
    /\ mappedCols = << >>
    /\ race = NoRace

Next ==
    \/ \E up \in BOOLEAN : retrieveModels(up)
    \/ \E failAt \in 0..Len(TableOrder) : retrieveMysqlData(failAt)
    \/ \E failAt \in 0..Len(TableOrder) : generateMongoSchemas(failAt)
    \/ populateMongo
    \/ \E t \in Tables : CreateTable(t)
    \/ \E t \in Tables : DropTable(t)
    \/ \E t \in Tables : InsertRow(t)

Spec == Init /\ [][Next]_vars

(* ------------------- name normalisation on its own --------------------- *)

\* the characters the enumerated names are made of
Alphabet == {"a", "z", "_", "Q"}

\* every string over Alphabet of length at most n
RECURSIVE Strings(_)
Strings(n) ==
    IF n = 0 THEN {""}
    ELSE Strings(n - 1) \cup {s \o c : s \in Strings(n - 1), c \in Alphabet}

NameInputs == Strings(MaxNameLen) \cup Tables \cup {"user_profile", "orders"}

InitNames ==
    /\ Fresh
    /\ datafiles = Absent
    /\ modelfiles = Absent
    /\ dbtables = {}
    /\ dbrows = [t \in Tables |-> 0]
    /\ nname \in NameInputs
    /\ nresult = ""
    /\ mappedCols = << >>
    /\ race = NoRace

\* lines 94-97 applied to nname
applyNormalize ==
    /\ lastOp = "none"
    /\ nresult' = normalize(nname)
    /\ lastOp' = "normalize"
    /\ UNCHANGED << instance, dirs, source, lastError, repeated, io, completed, nname,
                    collections, others >>

NextNames == applyNormalize

SpecNames == InitNames /\ [][NextNames]_vars

(* ------------------ the four operations called in order ---------------- *)

\* the driver calls discover, stage, generate and load once each, in that
\* order, on a new instance, and stops at the first call that throws; the
\* source does not change during the run
discover == lastOp = "none" /\ \E up \in BOOLEAN : retrieveModels(up)

stage ==
    /\ lastOp = "retrieveModels" /\ lastError = NoError
    /\ \E failAt \in 0..Len(TableOrder) : retrieveMysqlData(failAt)

generate ==
    /\ lastOp = "retrieveMysqlData" /\ lastError = NoError
    /\ \E failAt \in 0..Len(TableOrder) : generateMongoSchemas(failAt)

load ==
    /\ lastOp = "generateMongoSchemas" /\ lastError = NoError
    /\ populateMongo

NextPipeline == discover \/ stage \/ generate \/ load

SpecPipeline == Init /\ [][NextPipeline]_vars

(* ------------------ two runs staging at the same time ------------------ *)

\* Two runs of the program, each with the table list it discovered, execute
\* lines 47-61 on the same data-files/.  Each file-system call and each
\* query is one step; the steps of the two runs interleave freely.
Runs == {1, 2}

EEXIST == [kind |-> "EEXIST", table |-> "data-files"]

NewRun(list) == [pc |-> "idle", list |-> list, files |-> << >>, i |-> 0,
                 error |-> NoError]

Finished(run) == run.pc \in {"done", "failed"}
Running(run) == run.pc \notin {"idle", "done", "failed"}

InitRace ==
    /\ Fresh
    /\ datafiles \in StaleData
    /\ modelfiles = Absent
    /\ dbtables = Tables
    /\ dbrows = [t \in Tables |-> 1]
    /\ nname = ""
    /\ nresult = ""
    /\ mappedCols = << >>
    /\ \E S1, S2 \in SUBSET Tables :
          race = [runs    |-> << NewRun(Listing(S1)), NewRun(Listing(S2)) >>,
                  started |-> << >>,
                  overlap |-> FALSE]

\* run r takes a step and becomes run; the runs overlap when the other one
\* is between its first and its last step
Step(r, run) ==
    /\ race' = [race EXCEPT
                   !.runs[r] = run,
                   !.started = IF race.runs[r].pc = "idle" THEN Append(@, r) ELSE @,
                   !.overlap = @ \/ Running(race.runs[3 - r])]
    /\ UNCHANGED << instance, modelfiles, source, lastOp, lastError, repeated, io,
                    completed, names, collections, mappedCols >>

\* where a run goes once the directory is clean: lines 58-61, or the end
Loop(run) == IF run.i = Len(run.list) THEN "done" ELSE "query"

\* the variant of unlinkSync that leaves the file
unlinkedKept(dir, f) == dir

\* line 51: data-files/ without file f
unlinked(dir, f) == Dir([g \in Names(dir) \ {f} |-> dir.files[g]])

\* line 60: data-files/ with file f written
written(dir, f, text) ==
    Dir([g \in Names(dir) \cup {f} |-> IF g = f THEN text ELSE dir.files[g]])

\* line 48: readdirSync; a missing directory throws into the catch of line 54
listFiles(r) ==
    LET run == race.runs[r]
    IN  /\ run.pc = "idle"
        /\ UNCHANGED datafiles
        /\ IF datafiles.exists
           THEN Step(r, [run EXCEPT !.files = readdir(datafiles),
                                   !.pc = IF readdir(datafiles) = << >>
                                          THEN Loop(run) ELSE "unlink"])
           ELSE Step(r, [run EXCEPT !.pc = "mkdir"])

\* line 51: unlinkSync of the next listed file; a file that is gone throws
\* into the catch of line 54
unlinkFile(r) ==
    LET run == race.runs[r]
        f == Head(run.files)
    IN  /\ run.pc = "unlink"
        /\ IF f \in Names(datafiles)
           THEN /\ datafiles' = unlinked(datafiles, f)
                /\ Step(r, [run EXCEPT !.files = Tail(@),
                                       !.pc = IF Tail(run.files) = << >>
                                              THEN Loop(run) ELSE "unlink"])
           ELSE /\ UNCHANGED datafiles
                /\ Step(r, [run EXCEPT !.pc = "mkdir"])

\* line 55: mkdirSync, outside any try: an existing directory ends the run
makeDir(r) ==
    LET run == race.runs[r]
    IN  /\ run.pc = "mkdir"
        /\ IF datafiles.exists
           THEN /\ UNCHANGED datafiles
                /\ Step(r, [run EXCEPT !.pc = "failed", !.error = EEXIST])
           ELSE /\ datafiles' = EmptyDir
                /\ Step(r, [run EXCEPT !.pc = Loop(run)])

\* line 59: the rows of the next table are read
queryRows(r) ==
    LET run == race.runs[r]
    IN  /\ run.pc = "query"
        /\ UNCHANGED datafiles
        /\ Step(r, [run EXCEPT !.pc = "write"])

\* line 60: the artifact of that table is written
writeArtifact(r) ==
    LET run == race.runs[r]
        t == run.list[run.i + 1]
    IN  /\ run.pc = "write"
        /\ datafiles' = written(datafiles, artifact(t), JSONstringify(select(dbrows[t])))
        /\ Step(r, [run EXCEPT !.i = @ + 1,
                               !.pc = IF run.i + 1 = Len(run.list) THEN "done" ELSE "query"])

NextRace ==
    \/ \E r \in Runs : listFiles(r)
    \/ \E r \in Runs : unlinkFile(r)
    \/ \E r \in Runs : makeDir(r)
    \/ \E r \in Runs : queryRows(r)
    \/ \E r \in Runs : writeArtifact(r)

SpecRace == InitRace /\ [][NextRace]_vars

(* ----------------------- type mapping on its own ----------------------- *)

\* the column definitions `describe` can answer with
Columns ==
    [Field   : {"id", "qty"},
     Type    : {"int", "int(11)", "varchar(10)", "varchar(255)", "timestamp", "geometry"},
     Null    : {"YES", "NO"},
     Default : {NoDefault, Literal("1"), Literal("CURRENT_TIMESTAMP")}]

InitTypes ==
    /\ Fresh
    /\ datafiles = Absent
    /\ modelfiles = Absent
    /\ dbtables = {}
    /\ dbrows = [t \in Tables |-> 0]
    /\ nname = ""
    /\ nresult = ""
    /\ mappedCols = << >>
    /\ race = NoRace

\* lines 110-118 for one more column of a `describe` answer
mapColumn(field) ==
    /\ Len(mappedCols) < MaxColumns
    /\ mappedCols' = Append(mappedCols,
                            [column |-> field, descriptor |-> fieldDefinition(field)])
    /\ UNCHANGED << instance, dirs, source, lastOp, lastError, repeated, io,
                    completed, names, collections, race >>

NextTypes == \E field \in Columns : mapColumn(field)

SpecTypes == InitTypes /\ [][NextTypes]_vars

(* ------------------------------ properties ----------------------------- *)

Resolved(op) == lastOp = op /\ lastError = NoError

\* the artifacts of the discovered tables
ModelArtifacts == {artifact(models.list[i]) : i \in DOMAIN models.list}

\* the definition files of the staged artifacts
StagedDefinitions == {definitionFile(modelnames[f]) : f \in Names(datafiles)}

\* C1: when retrieveMysqlData resolves, data-files/ exists and holds exactly
\* the files <t>.json of the discovered tables t, whatever it held before.
C1_StagedExactlyModels ==
    Resolved("retrieveMysqlData") =>
        /\ datafiles.exists
        /\ Names(datafiles) = ModelArtifacts

\* C1 witness: a staging has resolved with tables to stage, and an artifact
\* of an earlier run (still named by the mapping) is gone from data-files/.
C1_Witness ==
    /\ Resolved("retrieveMysqlData")
    /\ models.list # << >>
    /\ \E f \in Keys(modelschemas) : f \notin Names(datafiles)

\* C2: when generateMongoSchemas resolves, modelschemas has exactly one entry
\* per file of data-files/ and no other entry (it is rebuilt from empty).
C2_MappingRebuilt ==
    Resolved("generateMongoSchemas") =>
        /\ Keys(modelschemas) = Names(datafiles)
        /\ Len(modelschemas) = Cardinality(Names(datafiles))

\* C3: whenever populateMongo reads staged artifacts, every file of
\* data-files/ has one mapping entry and its schema definition exists, and
\* every mapping entry read names a file of data-files/.
C3_LoaderSeesGeneratedState ==
    (lastOp = "populateMongo" /\ io # << >>) =>
        /\ \A f \in Names(datafiles) :
              /\ Cardinality({i \in DOMAIN modelschemas : modelschemas[i][1] = f}) = 1
              /\ definitionFile(modelnames[f]) \in Names(modelfiles)
        /\ \A i \in DOMAIN io : io[i][2] \in Names(datafiles)

\* C4 as stated: a call made before the preceding stage has resolved on the
\* instance is rejected with an error.
C4_OutOfOrderRejected ==
    /\ (lastOp = "retrieveMysqlData" /\ "retrieveModels" \notin completed)
          => lastError # NoError
    /\ (lastOp = "generateMongoSchemas" /\ "retrieveMysqlData" \notin completed)
          => lastError # NoError
    /\ (lastOp = "populateMongo" /\ "generateMongoSchemas" \notin completed)
          => lastError # NoError

\* C4 amended: retrieveMysqlData before any resolved retrieveModels throws and
\* changes nothing; generateMongoSchemas throws and writes nothing when
\* data-files/ is absent or empty (and only then is it rejected for want of
\* staging); populateMongo on an empty mapping reads nothing and resolves.
C4_StateChecks ==
    [][ /\ (lastOp' = "retrieveMysqlData" /\ ~models.defined) =>
              /\ lastError' = ModelsUndefined
              /\ io' = << >>
              /\ UNCHANGED << instance, dirs >>
        /\ (lastOp' = "generateMongoSchemas" /\ Names(datafiles) = {}) =>
              /\ lastError' \in {EmptyDirectory, ENOENT("data-files")}
              /\ io' = << >>
              /\ UNCHANGED << instance, dirs >>
        /\ (lastOp' = "populateMongo" /\ modelschemas = << >>) =>
              /\ lastError' = NoError
              /\ io' = << >>
              /\ UNCHANGED << instance, dirs >>
      ]_vars

\* C4 witness: populateMongo has resolved without reading anything although
\* no generateMongoSchemas has resolved on the instance.
C4_Witness ==
    /\ Resolved("populateMongo")
    /\ "generateMongoSchemas" \notin completed
    /\ modelschemas = << >>
    /\ io = << >>

\* C5: generateMongoSchemas on an empty data-files/ throws 'Empty directory!'
\* and leaves mongo-models/ and modelschemas as they were.
C5_EmptyStagingWritesNothing ==
    [][ (lastOp' = "generateMongoSchemas" /\ datafiles.exists /\ Names(datafiles) = {}) =>
            /\ lastError' = EmptyDirectory
            /\ modelfiles' = modelfiles
            /\ modelschemas' = modelschemas
      ]_vars

\* C5 witness: the call was rejected on the empty directory while
\* mongo-models/ still holds definitions of a previous generation.
C5_Witness ==
    /\ lastOp = "generateMongoSchemas"
    /\ lastError = EmptyDirectory
    /\ Names(modelfiles) # {}

\* C6 as stated: when generateMongoSchemas resolves, mongo-models/ holds one
\* definition file per staged artifact (as many files as artifacts), each
\* named <ModelName>.ts, and nothing else.
C6_OneDefinitionPerArtifact ==
    Resolved("generateMongoSchemas") =>
        /\ modelfiles.exists
        /\ Names(modelfiles) = StagedDefinitions
        /\ Cardinality(Names(modelfiles)) = Cardinality(Names(datafiles))

\* C6 amended: when generateMongoSchemas resolves, mongo-models/ holds
\* exactly the files <ModelName>.ts of the model names of the staged
\* artifacts, each declaring that model, and nothing of an earlier generation.
C6_DefinitionsReplaced ==
    Resolved("generateMongoSchemas") =>
        /\ modelfiles.exists
        /\ Names(modelfiles) = StagedDefinitions
        /\ \A f \in Names(datafiles) :
              modelfiles.files[definitionFile(modelnames[f])].model = modelnames[f]

\* C6 witness: a generation has resolved and the definition of a model
\* mapped by an earlier generation is no longer in mongo-models/.
C6_Witness ==
    /\ Resolved("generateMongoSchemas")
    /\ \E i \in DOMAIN modelschemas :
          definitionFile(modelschemas[i][2]) \notin Names(modelfiles)

\* C7: a retrieveMysqlData that resolves right after a resolved
\* retrieveMysqlData (no source change and no other call between) leaves
\* data-files/ with the same files and the same contents.
C7_StagingIdempotent ==
    [][ (Resolved("retrieveMysqlData") /\ lastOp' = "retrieveMysqlData"
            /\ lastError' = NoError)
        => datafiles' = datafiles ]_vars

\* C7 witness: two stagings in a row have resolved with artifacts written.
C7_Witness ==
    /\ Resolved("retrieveMysqlData")
    /\ repeated
    /\ Names(datafiles) # {}

\* C8: when the row query of the k-th table is rejected, retrieveMysqlData
\* throws an error naming that table, nothing is queried or written after
\* it, and the artifacts of tables 1..k-1 are in data-files/.
C8_FailFastNamesTable ==
    (lastOp = "retrieveMysqlData" /\ lastError # NoError /\ models.defined) =>
        \E k \in DOMAIN models.list :
            /\ lastError.table = models.list[k]
            /\ io = stagedIO(models.list, k)
            /\ Names(datafiles) = {artifact(models.list[i]) : i \in 1..(k - 1)}

\* C9: generateMongoSchemas never resolves having written a definition
\* whose field type is the undefined tag.
C9_UnmappedTypeFatal ==
    Resolved("generateMongoSchemas") =>
        \A f \in Names(modelfiles) :
            \A i \in DOMAIN modelfiles.files[f].fields :
                modelfiles.files[f].fields[i].type # "undefined"

\* out is in with only its first character capitalised: same length, same
\* characters after the first, and the first a lower-case letter's capital
\* or the character itself
FirstCapitalized(in, out) ==
    /\ Len(out) = Len(in)
    /\ \A i \in 2..Len(in) : CharAt(out, i) = CharAt(in, i)
    /\ Len(in) > 0 =>
          \/ /\ indexOf(Lower, CharAt(in, 1)) = 0
             /\ CharAt(out, 1) = CharAt(in, 1)
          \/ /\ indexOf(Lower, CharAt(in, 1)) # 0
             /\ indexOf(Upper, CharAt(out, 1)) = indexOf(Lower, CharAt(in, 1))

\* C10 as stated: "user_profile" becomes "UserProfile", "orders" becomes
\* "Orders", and a name without underscore gets its first character
\* capitalised.
C10_NormalizeCamel ==
    lastOp = "normalize" =>
        /\ nname = "user_profile" => nresult = "UserProfile"
        /\ nname = "orders" => nresult = "Orders"
        /\ indexOf(nname, "_") = 0 => FirstCapitalized(nname, nresult)

\* C10 amended: "user_profile" becomes "Userprofile", "orders" becomes
\* "Orders", and a name without underscore comes back with the same length
\* and the same characters after the first, the first one upper-cased.
C10_Normalize ==
    lastOp = "normalize" =>
        /\ nname = "user_profile" => nresult = "Userprofile"
        /\ nname = "orders" => nresult = "Orders"
        /\ indexOf(nname, "_") = 0 => FirstCapitalized(nname, nresult)

\* C10 witness: the normalisation has been applied to "user_profile".
C10_Witness ==
    /\ lastOp = "normalize"
    /\ nname = "user_profile"
    /\ nresult = "Userprofile"

\* C11: the default of a generated descriptor is Date.now for the
\* CURRENT_TIMESTAMP sentinel, the literal itself for any other literal
\* default, and for a column without default there is no default entry (in
\* particular not the entry null).
C11_DefaultRules ==
    \A i \in DOMAIN mappedCols :
        LET c == mappedCols[i].column
            d == mappedCols[i].descriptor
        IN  /\ (~c.Default.null /\ c.Default.value = "CURRENT_TIMESTAMP")
                  => d.default = "Date.now"
            /\ (~c.Default.null /\ c.Default.value # "CURRENT_TIMESTAMP")
                  => d.default = c.Default.value
            /\ c.Default.null => d.default # "null"

\* the raw type without its parenthesised parameters
BaseType(raw) == splitFirst(raw, "(")

\* C12: whatever was mapped before and whatever the column is called, two
\* columns with the same base type get the same type tag (varchar(255) and
\* varchar(10) alike), and two columns with the same (rawType, nullable,
\* default) get the same type, required and default.
C12_TypeTagByBaseType ==
    \A i, j \in DOMAIN mappedCols :
        LET ci == mappedCols[i].column
            cj == mappedCols[j].column
            di == mappedCols[i].descriptor
            dj == mappedCols[j].descriptor
        IN  /\ BaseType(ci.Type) = BaseType(cj.Type) => di.type = dj.type
            /\ (ci.Type = cj.Type /\ ci.Null = cj.Null /\ ci.Default = cj.Default)
                  => /\ di.type = dj.type
                     /\ di.required = dj.required
                     /\ di.default = dj.default

\* C12 witness: varchar(255) and varchar(10) have been mapped one after the
\* other, under different column names, to the same tag.
C12_Witness ==
    /\ Len(mappedCols) = 2
    /\ mappedCols[1].column.Type = "varchar(255)"
    /\ mappedCols[2].column.Type = "varchar(10)"
    /\ mappedCols[1].column.Field # mappedCols[2].column.Field
    /\ mappedCols[1].descriptor.type = mappedCols[2].descriptor.type

\* the model name the end-to-end scenario expects for each table
ExpectedModel(t) ==
    CASE t = "users" -> "Users"
      [] t = "order_items" -> "Orderitems"
      [] t = "orderitems" -> "Orderitems"

\* the definition file dir holds for table t has a descriptor for every
\* column of t, required = false exactly for the columns that allow null
DescribesColumns(dir, t) ==
    LET fields == dir.files[definitionFile(ExpectedModel(t))].fields
    IN  \A i \in DOMAIN describe(t) :
            \E j \in DOMAIN fields :
                /\ fields[j].Field = describe(t)[i].Field
                /\ (fields[j].required = "false") <=> (describe(t)[i].Null = "YES")
                /\ fields[j].required \in {"false", "true"}

\* the scenario's two descriptors: Users.email and Orderitems.qty
ScenarioDescriptors(dir) ==
    /\ "users" \in dbtables =>
          \E j \in DOMAIN dir.files["Users.ts"].fields :
              /\ dir.files["Users.ts"].fields[j].Field = "email"
              /\ dir.files["Users.ts"].fields[j].required = "false"
    /\ ("order_items" \in dbtables /\ "orderitems" \notin dbtables) =>
          \E j \in DOMAIN dir.files["Orderitems.ts"].fields :
              /\ dir.files["Orderitems.ts"].fields[j].Field = "qty"
              /\ dir.files["Orderitems.ts"].fields[j].required = "true"
              /\ dir.files["Orderitems.ts"].fields[j].default = "1"

Overwritten(t) ==
    \E i, j \in DOMAIN TableOrder :
        /\ TableOrder[i] = t
        /\ i < j
        /\ TableOrder[j] \in dbtables
        /\ ExpectedModel(TableOrder[j]) = ExpectedModel(t)

RunArtifacts(r) == {artifact(race.runs[r].list[i]) : i \in DOMAIN race.runs[r].list}

BothFinished == Len(race.runs) = 2 /\ \A r \in Runs : Finished(race.runs[r])

\* C14: when the two runs do not overlap (the caller serialises them), both
\* end without error and data-files/ holds exactly the artifacts of the run
\* that staged last.
C14_SerializedSafe ==
    (BothFinished /\ ~race.overlap) =>
        /\ \A r \in Runs : race.runs[r].pc = "done"
        /\ datafiles.exists
        /\ Names(datafiles) = RunArtifacts(race.started[2])

\* C14 witness: the two runs overlapped, both ended without error, and
\* data-files/ is the artifact set of neither.
C14_Witness ==
    /\ BothFinished
    /\ race.overlap
    /\ \A r \in Runs : race.runs[r].pc = "done"
    /\ \A r \in Runs : Names(datafiles) # RunArtifacts(r)

\* the other outcome of overlapping runs: one of them failed on a file the
\* other had removed
C14_FailedRun ==
    /\ BothFinished
    /\ race.overlap
    /\ \E r \in Runs : race.runs[r].error = EEXIST /\ race.runs[r].files # << >>

\* the records of the artifacts the mapping pairs with model m
RECURSIVE RecordsFor(_, _, _)
RecordsFor(map, dir, m) ==
    IF map = << >> THEN 0
    ELSE (IF Head(map)[2] = m THEN Len(JSONparse(dir.files[Head(map)[1]])) ELSE 0)
         + RecordsFor(Tail(map), dir, m)

\* C15: a populateMongo that resolves adds to each collection as many
\* documents as the artifacts mapped to that model name hold records.
C15_LoadWritesDocuments ==
    [][ (lastOp' = "populateMongo" /\ lastError' = NoError) =>
            \A m \in ModelNames :
                collections'[m] = collections[m] + RecordsFor(modelschemas, datafiles, m)
      ]_vars

\* C16 as stated: once a retrieveModels has resolved, no later step changes
\* the stored table list.
C16_ModelsImmutable ==
    [][ models.defined => models' = models ]_vars

\* C16 amended: once the list is set, only a retrieveModels that resolves
\* changes it, and it sets it to the base tables the source holds then.
C16_ModelsSetByDiscoveryOnly ==
    [][ /\ (models.defined /\ ~(lastOp' = "retrieveModels" /\ lastError' = NoError))
              => models' = models
        /\ (lastOp' = "retrieveModels" /\ lastError' = NoError)
              => /\ models'.defined
                 /\ {models'.list[i] : i \in DOMAIN models'.list} = dbtables
                 /\ Len(models'.list) = Cardinality(dbtables)
      ]_vars

\* C16 witness: a retrieveModels has resolved after the stages that follow
\* it had resolved and the source had changed, and the list is the source's
\* tables of now, not the staged ones.
C16_Witness ==
    /\ lastOp = "retrieveModels" /\ lastError = NoError
    /\ changes > 0
    /\ "retrieveMysqlData" \in completed
    /\ {artifact(models.list[i]) : i \in DOMAIN models.list} # Names(datafiles)

\* C17: retrieveMysqlData on an instance whose models are not set throws
\* 'Call retrieveModels to get MySQL models!' with data-files/, mongo-models/
\* and modelschemas as they were and without any query.
C17_UndiscoveredStagingRejected ==
    [][ (lastOp' = "retrieveMysqlData" /\ ~models.defined) =>
            /\ lastError' = ModelsUndefined
            /\ datafiles' = datafiles
            /\ modelfiles' = modelfiles
            /\ modelschemas' = modelschemas
            /\ \A i \in DOMAIN io' : io'[i][1] # "query"
      ]_vars

\* C17 witness: the call was rejected and the files data-files/ held are
\* still there.
C17_Witness ==
    /\ lastOp = "retrieveMysqlData"
    /\ lastError = ModelsUndefined
    /\ ~models.defined
    /\ Names(datafiles) # {}

\* C18: when order_items.json and orderitems.json are both staged and
\* generateMongoSchemas resolves, modelschemas has one entry for each, both
\* mapped to Orderitems, and mongo-models/ holds the one file Orderitems.ts
\* for them: fewer definitions than staged artifacts.
C18_CollisionUndetected ==
    (lastOp = "generateMongoSchemas" /\ lastError = NoError
        /\ {"order_items.json", "orderitems.json"} \subseteq Names(datafiles)) =>
        /\ \A f \in {"order_items.json", "orderitems.json"} :
              /\ Cardinality({i \in DOMAIN modelschemas : modelschemas[i][1] = f}) = 1
              /\ Get(modelschemas, f) = "Orderitems"
        /\ "Orderitems.ts" \in Names(modelfiles)
        /\ Cardinality(Names(modelfiles)) < Cardinality(Names(datafiles))

\* C18 witness: a generation has resolved on the two colliding artifacts.
C18_Witness ==
    /\ lastOp = "generateMongoSchemas" /\ lastError = NoError
    /\ {"order_items.json", "orderitems.json"} \subseteq Names(datafiles)
    /\ Len(io) >= 4

\* C19: when the describe query of the k-th staged file is rejected,
\* generateMongoSchemas throws that error after k - 1 definitions were
\* written; mongo-models/ holds those and none of the previous generation,
\* modelschemas has gained the first k - 1 files and nothing else.
C19_GenerationNotAtomic ==
    [][ (lastOp' = "generateMongoSchemas"
            /\ lastError'.kind \in {"QueryError", "ConnectivityError"}) =>
            \E k \in DOMAIN readdir(datafiles) :
                LET files == readdir(datafiles)
                    before == {files[i] : i \in 1..(k - 1)}
                IN  /\ Len(io') = 2 * k - 1
                    /\ io'[2 * k - 1] = <<"describe", tablesOf[files[k]]>>
                    /\ \A i \in 1..(k - 1) : io'[2 * i][1] = "write"
                    /\ Keys(modelschemas') = Keys(modelschemas) \cup before
                    /\ \A f \in before : Get(modelschemas', f) = modelnames[f]
                    /\ Names(modelfiles') = {definitionFile(modelnames[f]) : f \in before}
      ]_vars

\* C19 witness: a generation was rejected at its second or a later file, and
\* the definition of a model mapped earlier is gone from mongo-models/.
C19_Witness ==
    /\ lastOp = "generateMongoSchemas"
    /\ lastError.kind \in {"QueryError", "ConnectivityError"}
    /\ Len(io) >= 3
    /\ \E i \in DOMAIN modelschemas :
          definitionFile(modelschemas[i][2]) \notin Names(modelfiles)

\* C20: retrieveMysqlData leaves mongo-models/ and modelschemas as they were,
\* generateMongoSchemas leaves data-files/ and the table list as they were,
\* populateMongo leaves both directories, the table list and modelschemas
\* as they were.
C20_Frame ==
    [][ /\ lastOp' = "retrieveMysqlData" =>
              (modelfiles' = modelfiles /\ modelschemas' = modelschemas)
        /\ lastOp' = "generateMongoSchemas" =>
              (datafiles' = datafiles /\ models' = models)
        /\ lastOp' = "populateMongo" =>
              /\ datafiles' = datafiles
              /\ modelfiles' = modelfiles
              /\ models' = models
              /\ modelschemas' = modelschemas
      ]_vars

\* C20 witness: populateMongo has read artifacts after staging and
\* generation had resolved, and the artifacts it read are still staged.
C20_Witness ==
    /\ lastOp = "populateMongo" /\ lastError = NoError
    /\ io # << >>
    /\ {"retrieveMysqlData", "generateMongoSchemas"} \subseteq completed
    /\ \A i \in DOMAIN io : io[i][2] \in Names(datafiles)

====
